---- MODULE Spec2Model ----
(***************************************************************************)
(* OneMinute chat server (app/server.js): rooms, connections, the          *)
(* time-boxed message store, the sweeper and the per-identity rate limit.  *)
(*                                                                         *)
(* Strings the server inspects (trim, length) are sequences of one-letter  *)
(* strings.  Every handler runs at one instant `now` of the clock          *)
(* (Date.now()).  A message id is <<prefix, time, what Math.random gave>>.  *)
(*                                                                         *)
(* The browser client (app/src/App.tsx) is modelled next to the server:    *)
(* its sockets, its React state and refs, and what the server sends it.    *)
(***************************************************************************)
EXTENDS Integers, Sequences, FiniteSets, TLC

\* ---------------------------------------------------------------- bounds
\* Spec: the store, the clock and the sweeper
StoreConns == 1    \* connections opened during a run
StoreRooms == 1    \* create_room commands during a run
StoreTicks == 2    \* clock advances during a run
StoreMsgs == 2     \* length of a room's stored log
\* SpecRooms: rooms and membership at one instant of the clock
RoomConns == 2
RoomRooms == 1
RoomMsgs == 2
\* SpecCast: broadcasts among several connections
CastConns == 3
CastRooms == 1
CastMsgs == 3
\* SpecNames: pseudonyms in global
NameConns == 2
NameMsgs == 3
\* SpecValid: validation of the names of create_room and join_room
ValidRooms == 1
ValidMsgs == 2
\* SpecSweep: the sweeper over messages and files
SweepTicks == 2
SweepMsgs == 2
SweepUploads == 1
\* SpecFiles: uploads and downloads of files
FileTicks == 2
FileUploads == 2
\* SpecIds: the ids of messages
IdConns == 2
IdTicks == 1
IdMsgs == 3
IdRandoms == 2     \* values Math.random() chooses from
\* SpecSession: the client's sockets
SessionSockets == 4   \* WebSocket objects the client creates during a run
SessionFaults == 1    \* closes by the server or the network
SessionRooms == 1     \* create_room commands of the user
\* SpecView: the client's displayed list
ViewMsgs == 2         \* new_message envelopes during a run
ViewTicks == 3        \* advances of the client's clock
\* SpecRate: the rate limiter for messages and uploads along one clock path
RateTicks == 5     \* clock advances during a run
RateMsgs == 2      \* length of the stored log
RateUploads == 1   \* files stored during a run

\* ------------------------------------------------------ program constants
MESSAGE_TTL == 600000
RATE_LIMIT_WINDOW == 3000
RATE_LIMIT_UPLOAD == 5000
MAX_FILE_SIZE == 1048576
MaxNameLen == 20
global == 0        \* the room id 'global'; private rooms are 1, 2, ...
systemId == 0      \* senderId 'system'; identities are 1, 2, ...

Deltas == {1, 600000}
\* SpecRate: the clock reads 1, 3000, 3001, 5000, 5001, ...
RateClock == <<1, 2999, 1, 1999, 1>>

\* ---------------------------------------------------------------- strings
Undefined == <<"undefined">>          \* a field absent from the frame
Host == <<"H", "o", "s", "t">>
Guest == <<"G", "u", "e", "s", "t">>
System == <<"System">>
LongName == [i \in 1 .. MaxNameLen + 1 |-> "x"]
NoKey == "undefined"
RoomKeys == {"k1"}
PresentedKeys == {"k1", "k2", NoKey}
AnonNames == {<<"BlueFox#100">>}
\* SpecNames: two of the outcomes of generateAnonName
Pseudonyms == {<<"BlueFox#100">>, <<"ColdOwl#200">>}
UsernameInputs == {Undefined, <<" ", "a", " ">>, LongName}
FullName == [i \in 1 .. MaxNameLen |-> "y"]
\* SpecValid: absent, blank, padded, of the greatest length, too long
NameInputs == UsernameInputs \cup {<<" ">>, <<" ">> \o FullName}
TextInputs == {Undefined, <<" ">>, <<"h", "i">>}
FileUrlInputs == {Undefined}
Ips == {1}                            \* req.socket.remoteAddress
\* an upload request: content-length header, bytes received, whether the
\* body is JSON with fileData, fileName and mimeType, decoded size of fileData
\* (base64 in a JSON body: less than the bytes received); the header of the
\* third understates the body
UploadInputs ==
    {[contentLength |-> 100, len |-> 100, valid |-> TRUE, fileSize |-> 60],
     [contentLength |-> 100, len |-> 100, valid |-> FALSE, fileSize |-> 0],
     [contentLength |-> 100, len |-> 2 * MAX_FILE_SIZE, valid |-> TRUE,
      fileSize |-> MAX_FILE_SIZE + 1],
     [contentLength |-> MAX_FILE_SIZE + 1, len |-> MAX_FILE_SIZE + 1,
      valid |-> TRUE, fileSize |-> MAX_FILE_SIZE]}

RECURSIVE TrimStart(_)
TrimStart(s) ==
    IF s # <<>> /\ Head(s) = " " THEN TrimStart(Tail(s)) ELSE s

RECURSIVE TrimEnd(_)
TrimEnd(s) ==
    IF s # <<>> /\ s[Len(s)] = " " THEN TrimEnd(SubSeq(s, 1, Len(s) - 1)) ELSE s

\* String.prototype.trim
Trim(s) == TrimEnd(TrimStart(s))

\* parsed.username?.trim() || dflt
UsernameOr(raw, dflt) ==
    IF raw = Undefined THEN dflt
    ELSE IF Trim(raw) = <<>> THEN dflt ELSE Trim(raw)

\* username.length === 0 || username.length > 20
BadUsernameLengthStrict(username) ==
    Len(username) = 0 \/ Len(username) >= MaxNameLen

BadUsernameLength(username) ==
    Len(username) = 0 \/ Len(username) > MaxNameLen

\* ------------------------------------------------------------------ state
VARIABLES
    now,          \* Date.now()
    budget,       \* what the run may still do:
                  \* [conns, rooms, ticks, msgs, uploads], and rnd, the
                  \* number of values Math.random() chooses from
    conns,        \* connection -> [readyState, currentRoom, roomNames, anonName]
    rooms,        \* room id -> [id, isPrivate, key, members, messages]
    nextRoom,     \* private rooms created so far (crypto.randomUUID is fresh)
    rateLimits,   \* identifier -> time of the last accepted action
    files,        \* file id -> [timestamp, size]
    fileIdCounter,
    random,       \* what Math.random() returns to the next handler, in order
    sent,         \* envelopes sent by the last handler, in order
    last,         \* the last handler that ran, with its inputs
    emptied,      \* private rooms whose member count has dropped to 0
    \* the client (App.tsx)
    sockets,      \* the WebSocket objects made so far: [readyState, inbox],
                  \* inbox = envelopes the server has sent and onmessage has
                  \* not yet handled
    wsRef,        \* wsRef.current: 0 (null) or an index of sockets
    connectDep,   \* the currentRoom the effect's connect was made with
    reconnectTimeoutRef,   \* a reconnect timeout is pending
    currentRoom,  \* React state
    messages,     \* React state: the displayed list
    delivered,    \* the messages handed to the list since it was last replaced
    clock,        \* the browser's time
    clientBudget  \* what the client's run may still do:
                  \* [sockets, faults, rooms, msgs, ticks]

serverVars == <<now, budget, conns, rooms, nextRoom, rateLimits, files,
                fileIdCounter, random, sent, last, emptied>>

clientVars == <<sockets, wsRef, connectDep, reconnectTimeoutRef, currentRoom,
                messages, delivered, clock, clientBudget>>

vars == <<serverVars, clientVars>>

MapSet(f, k, v) == (k :> v) @@ f
MapDelete(f, k) == [x \in DOMAIN f \ {k} |-> f[x]]

SockKey(c) == <<"sock", c>>
IpKeyShared(ip) == <<"sock", ip>>
IpKey(ip) == <<"ip", ip>>

\* last: the handler that ran last, the connection it ran for and, for a
\* close or a sweep, what it found
NoOp == [op |-> "none", c |-> 0, pre |-> <<>>]

\* ------------------------------------------------------------ broadcasting
\* The world a handler works on: W = [rooms, conns, sent, rnd]; rnd is what
\* Math.random() has yet to return to the handler.

SendAll(W, c, data) ==
    [W EXCEPT !.sent = Append(@, data @@
        [to |-> {m \in DOMAIN W.conns : W.conns[m].readyState = "open"}])]

Send(W, c, data) ==
    [W EXCEPT !.sent = Append(@, data @@ [to |-> {c}])]

broadcastToRoomAll(W, roomId, data) ==
    IF roomId \notin DOMAIN W.rooms THEN W
    ELSE [W EXCEPT !.sent = Append(@, data @@
            [to |-> W.rooms[roomId].members])]

broadcastToRoom(W, roomId, data) ==
    IF roomId \notin DOMAIN W.rooms THEN W
    ELSE [W EXCEPT !.sent = Append(@, data @@
            [to |-> {m \in W.rooms[roomId].members :
                        W.conns[m].readyState = "open"}])]

broadcastUserCountOpen(W, roomId) ==
    IF roomId \notin DOMAIN W.rooms THEN W
    ELSE broadcastToRoom(W, roomId,
            [type |-> "room_users", roomId |-> roomId,
             count |-> Cardinality({m \in W.rooms[roomId].members :
                                        W.conns[m].readyState = "open"})])

broadcastUserCount(W, roomId) ==
    IF roomId \notin DOMAIN W.rooms THEN W
    ELSE broadcastToRoom(W, roomId,
            [type |-> "room_users", roomId |-> roomId,
             count |-> Cardinality(W.rooms[roomId].members)])

DisplayName(W, c, roomId) ==
    IF roomId = global THEN W.conns[c].anonName
    ELSE IF roomId \in DOMAIN W.conns[c].roomNames
         THEN W.conns[c].roomNames[roomId] ELSE Undefined

getRoomUsers(W, roomId) ==
    IF roomId \notin DOMAIN W.rooms THEN {}
    ELSE {[id |-> m, name |-> DisplayName(W, m, roomId)] :
            m \in W.rooms[roomId].members}

broadcastUserList(W, roomId) ==
    IF roomId \notin DOMAIN W.rooms THEN W
    ELSE broadcastToRoom(W, roomId,
            [type |-> "room_user_list", roomId |-> roomId,
             users |-> getRoomUsers(W, roomId)])

systemMessageUnshift(W, roomId, text, t) ==
    LET msg == [id |-> <<"sys", t, Head(W.rnd)>>,
                text |-> text, timestamp |-> t, sender |-> System,
                senderId |-> systemId, fileUrl |-> Undefined,
                fileName |-> Undefined]
        W1 == [W EXCEPT !.rnd = Tail(@)]
    IN  IF roomId \notin DOMAIN W.rooms THEN W1
        ELSE broadcastToRoom(
                [W1 EXCEPT !.rooms[roomId].messages = <<msg>> \o @],
                roomId, [type |-> "new_message", roomId |-> roomId,
                         message |-> msg])

systemMessage(W, roomId, text, t) ==
    LET msg == [id |-> <<"sys", t, Head(W.rnd)>>,
                text |-> text, timestamp |-> t, sender |-> System,
                senderId |-> systemId, fileUrl |-> Undefined,
                fileName |-> Undefined]
        W1 == [W EXCEPT !.rnd = Tail(@)]
    IN  IF roomId \notin DOMAIN W.rooms THEN W1
        ELSE broadcastToRoom(
                [W1 EXCEPT !.rooms[roomId].messages = Append(@, msg)],
                roomId, [type |-> "new_message", roomId |-> roomId,
                         message |-> msg])

\* ---------------------------------------------------------- message store
getActiveMessagesStrict(rs, roomId, t) ==
    IF roomId \notin DOMAIN rs THEN <<>>
    ELSE LET live == SelectSeq(rs[roomId].messages,
                        LAMBDA msg : t - msg.timestamp < MESSAGE_TTL)
         IN  [i \in DOMAIN live |-> live[i] @@
                [remainingTime |-> MESSAGE_TTL - (t - live[i].timestamp)]]

getActiveMessages(rs, roomId, t) ==
    IF roomId \notin DOMAIN rs THEN <<>>
    ELSE LET live == SelectSeq(rs[roomId].messages,
                        LAMBDA msg : t - msg.timestamp <= MESSAGE_TTL)
         IN  [i \in DOMAIN live |-> live[i] @@
                [remainingTime |-> MESSAGE_TTL - (t - live[i].timestamp)]]

\* ------------------------------------------------------------- membership
\* `${username} left the room`; username is 'Guest' when no name is set
NoticeNameAnon(W, c, roomId) == W.conns[c].anonName

NoticeName(W, c, roomId) ==
    IF roomId = global THEN W.conns[c].anonName
    ELSE IF roomId \in DOMAIN W.conns[c].roomNames
         THEN W.conns[c].roomNames[roomId] ELSE Guest

leaveRoomAlwaysNotice(W, c, t) ==
    LET cur == W.conns[c].currentRoom IN
    IF cur \notin DOMAIN W.rooms THEN W
    ELSE LET username == NoticeName(W, c, cur)
             W1 == [W EXCEPT !.rooms[cur].members = @ \ {c}]
             W2 == systemMessage(W1, cur, username \o <<" left the room">>, t)
         IN  broadcastUserList(broadcastUserCount(W2, cur), cur)

leaveRoom(W, c, t) ==
    LET cur == W.conns[c].currentRoom IN
    IF cur \notin DOMAIN W.rooms THEN W
    ELSE LET username == NoticeName(W, c, cur)
             W1 == [W EXCEPT !.rooms[cur].members = @ \ {c}]
             W2 == IF W1.rooms[cur].members # {}
                   THEN systemMessage(W1, cur,
                            username \o <<" left the room">>, t)
                   ELSE W1
         IN  broadcastUserList(broadcastUserCount(W2, cur), cur)

joinRoomNoLeave(W, c, roomId, t) ==
    LET W1 == W
        W2 == [W1 EXCEPT !.conns[c].currentRoom = roomId]
    IN  IF roomId \notin DOMAIN W2.rooms THEN W2
        ELSE LET W3 == [W2 EXCEPT !.rooms[roomId].members = @ \cup {c}]
                 W4 == broadcastUserList(broadcastUserCount(W3, roomId), roomId)
                 username == NoticeName(W4, c, roomId)
                 W5 == systemMessage(W4, roomId,
                            username \o <<" joined the room">>, t)
             IN  Send(W5, c, [type |-> "init", roomId |-> roomId,
                        messages |-> getActiveMessages(W5.rooms, roomId, t),
                        username |-> username])

joinRoom(W, c, roomId, t) ==
    LET W1 == leaveRoom(W, c, t)
        W2 == [W1 EXCEPT !.conns[c].currentRoom = roomId]
    IN  IF roomId \notin DOMAIN W2.rooms THEN W2
        ELSE LET W3 == [W2 EXCEPT !.rooms[roomId].members = @ \cup {c}]
                 W4 == broadcastUserList(broadcastUserCount(W3, roomId), roomId)
                 username == NoticeName(W4, c, roomId)
                 W5 == systemMessage(W4, roomId,
                            username \o <<" joined the room">>, t)
             IN  Send(W5, c, [type |-> "init", roomId |-> roomId,
                        messages |-> getActiveMessages(W5.rooms, roomId, t),
                        username |-> username])

\* ------------------------------------------------------------- rate limit
\* checkRateLimit returns [ok, limits]
checkRateLimitRecords(limits, identifier, window, t) ==
    IF identifier \in DOMAIN limits
       /\ limits[identifier] # 0
       /\ t - limits[identifier] < window
    THEN [ok |-> FALSE, limits |-> MapSet(limits, identifier, t)]
    ELSE [ok |-> TRUE, limits |-> MapSet(limits, identifier, t)]

checkRateLimit(limits, identifier, window, t) ==
    IF identifier \in DOMAIN limits
       /\ limits[identifier] # 0
       /\ t - limits[identifier] < window
    THEN [ok |-> FALSE, limits |-> limits]
    ELSE [ok |-> TRUE, limits |-> MapSet(limits, identifier, t)]

\* ------------------------------------------------------------------- init
\* a handler calls Math.random() for at most two message ids
RandomDraws(n) == [1 .. 2 -> 1 .. n]

InitServer(b, n) ==
    /\ now = 0
    /\ budget = b @@ [rnd |-> n]
    /\ random \in RandomDraws(n)
    /\ conns = <<>>
    /\ rooms = (global :> [id |-> global, isPrivate |-> FALSE, key |-> NoKey,
                           members |-> {}, messages |-> <<>>])
    /\ nextRoom = 0
    /\ rateLimits = <<>>
    /\ files = <<>>
    /\ fileIdCounter = 0
    /\ sent = <<>>
    /\ last = NoOp
    /\ emptied = {}

\* connectDep before the first effect has run
Unmounted == -1

\* App(): the state before the first effect has run
InitClient(b) ==
    /\ sockets = <<>>
    /\ wsRef = 0
    /\ connectDep = Unmounted
    /\ reconnectTimeoutRef = FALSE
    /\ currentRoom = global
    /\ messages = <<>>
    /\ delivered = <<>>
    /\ clock = MESSAGE_TTL
    /\ clientBudget = b

NoClient == [sockets |-> 0, faults |-> 0, rooms |-> 0, msgs |-> 0, ticks |-> 0]

NoServer == [conns |-> 0, rooms |-> 0, ticks |-> 0, msgs |-> 0, uploads |-> 0]

InitDraws(b, n) == InitServer(b, n) /\ InitClient(NoClient)

InitWith(b) == InitDraws(b, 1)

World == [rooms |-> rooms, conns |-> conns, sent |-> <<>>, rnd |-> random]

LogsWithinCap(rs) == \A r \in DOMAIN rs : Len(rs[r].messages) <= budget.msgs

\* rooms whose member count drops to 0 in the step from rs to rs2
Emptied(rs, rs2) ==
    {r \in DOMAIN rs : /\ rs[r].isPrivate
                       /\ rs[r].members # {}
                       /\ (r \notin DOMAIN rs2 \/ rs2[r].members = {})}

\* commit the world W reached by a handler
Commit(W, limits, l) ==
    /\ LogsWithinCap(W.rooms)
    /\ rooms' = W.rooms
    /\ conns' = W.conns
    /\ sent' = W.sent
    /\ random' \in RandomDraws(budget.rnd)
    /\ rateLimits' = limits
    /\ last' = l
    /\ emptied' = emptied \cup Emptied(rooms, W.rooms)
    /\ UNCHANGED clientVars

\* ---------------------------------------------------------------- actions
Tick(d) ==
    /\ budget.ticks > 0
    /\ now' = now + d
    /\ budget' = [budget EXCEPT !.ticks = @ - 1]
    /\ sent' = <<>>
    /\ last' = [NoOp EXCEPT !.op = "tick"]
    /\ UNCHANGED <<conns, rooms, nextRoom, rateLimits, files, fileIdCounter,
                   random, emptied, clientVars>>

\* wss.on('connection')
removeGhosts(W, c) ==
    LET ghosts == {g \in DOMAIN W.conns \ {c} :
                        W.conns[g].readyState = "closing"}
    IN  [W EXCEPT !.rooms = [r \in DOMAIN W.rooms |->
            [W.rooms[r] EXCEPT !.members = @ \ ghosts]]]

ConnectJoinFirst(anon) ==
    /\ budget.conns > 0
    /\ budget' = [budget EXCEPT !.conns = @ - 1]
    /\ LET c == Len(conns) + 1
           W0 == [World EXCEPT !.conns = Append(@,
                    [readyState |-> "open", currentRoom |-> global,
                     roomNames |-> <<>>, anonName |-> anon])]
           W1 == removeGhosts(W0, c)
           W2 == joinRoom(W1, c, global, now)
           W3 == Send(W2, c, [type |-> "identity", userId |-> c,
                              anonName |-> anon])
       IN  Commit(W3, rateLimits, [NoOp EXCEPT !.op = "connection", !.c = c])
    /\ UNCHANGED <<now, nextRoom, files, fileIdCounter>>

Connect(anon) ==
    /\ budget.conns > 0
    /\ budget' = [budget EXCEPT !.conns = @ - 1]
    /\ LET c == Len(conns) + 1
           W0 == [World EXCEPT !.conns = Append(@,
                    [readyState |-> "open", currentRoom |-> global,
                     roomNames |-> <<>>, anonName |-> anon])]
           W1 == removeGhosts(W0, c)
           W2 == Send(W1, c, [type |-> "identity", userId |-> c,
                              anonName |-> anon])
           W3 == joinRoom(W2, c, global, now)
       IN  Commit(W3, rateLimits, [NoOp EXCEPT !.op = "connection", !.c = c])
    /\ UNCHANGED <<now, nextRoom, files, fileIdCounter>>

ErrorEnv(text) == [type |-> "error", message |-> text]

\* ws.on('message'), parsed.type === 'ping'
PingLimited(c) ==
    /\ conns[c].readyState = "open"
    /\ LET rl == checkRateLimit(rateLimits, SockKey(c), RATE_LIMIT_WINDOW, now)
       IN  Commit(Send(World, c, IF rl.ok THEN [type |-> "pong"]
                                 ELSE ErrorEnv("Slow down.")),
                  rl.limits, [NoOp EXCEPT !.op = "ping", !.c = c])
    /\ UNCHANGED <<now, budget, nextRoom, files, fileIdCounter>>

Ping(c) ==
    /\ conns[c].readyState = "open"
    /\ Commit(Send(World, c, [type |-> "pong"]), rateLimits,
              [NoOp EXCEPT !.op = "ping", !.c = c])
    /\ UNCHANGED <<now, budget, nextRoom, files, fileIdCounter>>

\* ws.on('message'), JSON.parse throws
Malformed(c) ==
    /\ conns[c].readyState = "open"
    /\ Commit(Send(World, c, ErrorEnv("Invalid message format")), rateLimits,
              [NoOp EXCEPT !.op = "malformed", !.c = c])
    /\ UNCHANGED <<now, budget, nextRoom, files, fileIdCounter>>

\* ws.on('message'), a frame whose type matches none of the branches
UnknownType(c) ==
    /\ conns[c].readyState = "open"
    /\ Commit(World, rateLimits, [NoOp EXCEPT !.op = "unknown", !.c = c])
    /\ UNCHANGED <<now, budget, nextRoom, files, fileIdCounter>>

\* ws.on('message'), parsed.type === 'message'
messageHandler(W, limits, c, rawText, fileUrl, t) ==
    LET rl == checkRateLimit(limits, SockKey(c), RATE_LIMIT_WINDOW, t)
        text == IF rawText = Undefined THEN Undefined ELSE Trim(rawText)
        noText == text = Undefined \/ text = <<>>
        cur == W.conns[c].currentRoom
        message == [id |-> <<"msg", t, Head(W.rnd)>>,
                    text |-> IF noText THEN <<>> ELSE text,
                    timestamp |-> t, fileUrl |-> fileUrl,
                    fileName |-> Undefined,
                    sender |-> NoticeName(W, c, cur), senderId |-> c]
    IN  IF ~rl.ok
        THEN [W |-> Send(W, c, ErrorEnv("Slow down.")), limits |-> rl.limits]
        ELSE IF noText /\ fileUrl = Undefined
        THEN [W |-> Send(W, c, ErrorEnv("Message cannot be empty")),
              limits |-> rl.limits]
        ELSE IF cur \notin DOMAIN W.rooms
        THEN [W |-> [W EXCEPT !.rnd = Tail(@)], limits |-> rl.limits]
        ELSE [W |-> broadcastToRoom(
                        [W EXCEPT !.rooms[cur].messages = Append(@, message),
                                  !.rnd = Tail(@)],
                        cur, [type |-> "new_message", roomId |-> cur,
                              message |-> message]),
              limits |-> rl.limits]

Message(c, rawText, fileUrl) ==
    /\ conns[c].readyState = "open"
    /\ LET res == messageHandler(World, rateLimits, c, rawText, fileUrl, now)
       IN  Commit(res.W, res.limits,
                  [NoOp EXCEPT !.op = "message", !.c = c])
    /\ UNCHANGED <<now, budget, nextRoom, files, fileIdCounter>>

\* ws.on('message'), parsed.type === 'create_room'
newRoomPublic(roomId, roomKey) ==
    [id |-> roomId, key |-> roomKey, isPrivate |-> FALSE,
     members |-> {}, messages |-> <<>>]

\* rooms.set(roomId, {id, key, isPrivate: true, members, messages})
newRoom(roomId, roomKey) ==
    [id |-> roomId, key |-> roomKey, isPrivate |-> TRUE,
     members |-> {}, messages |-> <<>>]

createRoomHandler(W, c, roomId, roomKey, rawName, t) ==
    LET W1 == [W EXCEPT !.rooms = MapSet(@, roomId, newRoom(roomId, roomKey))]
        username == UsernameOr(rawName, Host)
    IN  IF BadUsernameLength(username)
        THEN Send(W1, c,
                ErrorEnv("Username must be between 1 and 20 characters"))
        ELSE LET W2 == [W1 EXCEPT !.conns[c].roomNames =
                            MapSet(@, roomId, username)]
                 W3 == joinRoom(W2, c, roomId, t)
             IN  Send(W3, c, [type |-> "room_created", roomId |-> roomId,
                              roomKey |-> roomKey, username |-> username])

CreateRoom(c, roomKey, rawName) ==
    /\ conns[c].readyState = "open"
    /\ budget.rooms > 0
    /\ budget' = [budget EXCEPT !.rooms = @ - 1]
    /\ nextRoom' = nextRoom + 1
    /\ Commit(createRoomHandler(World, c, nextRoom + 1, roomKey, rawName, now),
              rateLimits,
              [NoOp EXCEPT !.op = "create_room", !.c = c])
    /\ UNCHANGED <<now, files, fileIdCounter>>

\* !room || (room.isPrivate && room.key !== parsed.roomKey)
roomAccessDeniedNoKey(W, roomId, roomKey) ==
    roomId \notin DOMAIN W.rooms

roomAccessDeniedAnyRoom(W, roomId, roomKey) ==
    \/ roomId \notin DOMAIN W.rooms
    \/ W.rooms[roomId].key # roomKey

roomAccessDenied(W, roomId, roomKey) ==
    \/ roomId \notin DOMAIN W.rooms
    \/ (W.rooms[roomId].isPrivate /\ W.rooms[roomId].key # roomKey)

\* Array.from(room.members).some(
\*     client => client.user.roomNames.get(roomId) === username)
isDuplicateAnon(W, roomId, username) ==
    \E m \in W.rooms[roomId].members : W.conns[m].anonName = username

isDuplicate(W, roomId, username) ==
    \E m \in W.rooms[roomId].members :
        /\ roomId \in DOMAIN W.conns[m].roomNames
        /\ W.conns[m].roomNames[roomId] = username

\* ws.on('message'), parsed.type === 'join_room'
joinRoomHandler(W, c, roomId, roomKey, rawName, t) ==
    LET username == UsernameOr(rawName, Guest) IN
    IF roomAccessDenied(W, roomId, roomKey)
    THEN Send(W, c, ErrorEnv("Invalid room or key"))
    ELSE IF BadUsernameLength(username)
    THEN Send(W, c, ErrorEnv("Username must be between 1 and 20 characters"))
    ELSE IF isDuplicate(W, roomId, username)
    THEN Send(W, c, ErrorEnv("Username is already taken in this room"))
    ELSE joinRoom([W EXCEPT !.conns[c].roomNames = MapSet(@, roomId, username)],
                  c, roomId, t)

JoinRoom(c, roomId, roomKey, rawName) ==
    /\ conns[c].readyState = "open"
    /\ Commit(joinRoomHandler(World, c, roomId, roomKey, rawName, now),
              rateLimits,
              [NoOp EXCEPT !.op = "join_room", !.c = c])
    /\ UNCHANGED <<now, budget, nextRoom, files, fileIdCounter>>

\* ws.on('message'), parsed.type === 'leave_room'
LeaveRoomOnly(c) ==
    /\ conns[c].readyState = "open"
    /\ Commit(leaveRoom(World, c, now), rateLimits,
              [NoOp EXCEPT !.op = "leave_room", !.c = c])
    /\ UNCHANGED <<now, budget, nextRoom, files, fileIdCounter>>

LeaveRoom(c) ==
    /\ conns[c].readyState = "open"
    /\ Commit(joinRoom(World, c, global, now), rateLimits,
              [NoOp EXCEPT !.op = "leave_room", !.c = c])
    /\ UNCHANGED <<now, budget, nextRoom, files, fileIdCounter>>

\* the socket leaves the OPEN state; its 'close' event has not run yet
Closing(c) ==
    /\ conns[c].readyState = "open"
    /\ conns' = [conns EXCEPT ![c].readyState = "closing"]
    /\ sent' = <<>>
    /\ last' = [NoOp EXCEPT !.op = "closing", !.c = c]
    /\ UNCHANGED <<now, budget, rooms, nextRoom, rateLimits, files,
                   fileIdCounter, random, emptied, clientVars>>

\* rateLimits.delete(socketId)
deleteRateLimitKeep(limits, c) == limits

deleteRateLimit(limits, c) == MapDelete(limits, SockKey(c))

\* currentRoom && currentRoom.isPrivate && currentRoom.members.size === 0
destroyEmptyNever(rs, cur) == rs

destroyEmpty(rs, cur) ==
    IF cur \in DOMAIN rs /\ rs[cur].isPrivate /\ rs[cur].members = {}
    THEN MapDelete(rs, cur) ELSE rs

RECURSIVE closeRooms(_, _, _)
closeRooms(W, c, todo) ==
    IF todo = {} THEN W
    ELSE LET r == CHOOSE x \in todo : \A y \in todo : x <= y
             W1 == IF c \in W.rooms[r].members
                   THEN broadcastUserList(broadcastUserCount(
                            [W EXCEPT !.rooms[r].members = @ \ {c}], r), r)
                   ELSE W
         IN  closeRooms(W1, c, todo \ {r})

\* a connection whose 'close' event has run: the socket object is garbage
Closed == [readyState |-> "closed", currentRoom |-> global,
           roomNames |-> <<>>, anonName |-> Undefined]

\* ws.on('close')
closeHandler(W, c) ==
    LET cur == W.conns[c].currentRoom
        W1 == closeRooms(W, c, DOMAIN W.rooms)
    IN  [W1 EXCEPT !.rooms = destroyEmpty(@, cur)]

Close(c) ==
    /\ conns[c].readyState = "closing"
    /\ LET cur == conns[c].currentRoom
           W1 == closeHandler(World, c)
       IN  Commit([W1 EXCEPT !.conns[c] = Closed],
                  deleteRateLimit(rateLimits, c),
                  [NoOp EXCEPT !.op = "close", !.c = c,
                     !.pre = [roomId |-> cur, exists |-> cur \in DOMAIN rooms,
                              members |-> IF cur \in DOMAIN rooms
                                          THEN rooms[cur].members ELSE {},
                              logLen |-> IF cur \in DOMAIN rooms
                                         THEN Len(rooms[cur].messages) ELSE 0,
                              limited |-> SockKey(c) \in DOMAIN rateLimits]])
    /\ UNCHANGED <<now, budget, nextRoom, files, fileIdCounter>>

\* setInterval cleanup: msg => now - msg.timestamp <= MESSAGE_TTL
sweepKeepsAll(msg, t) == TRUE

sweepKeepsStrict(msg, t) == t - msg.timestamp < MESSAGE_TTL

sweepKeeps(msg, t) == t - msg.timestamp <= MESSAGE_TTL

\* a loop that deletes in place while it walks the log forward steps over
\* the message after each one it deletes
RECURSIVE SkippingFilter(_, _)
SkippingFilter(log, t) ==
    IF log = <<>> THEN <<>>
    ELSE IF sweepKeeps(Head(log), t)
    THEN <<Head(log)>> \o SkippingFilter(Tail(log), t)
    ELSE IF Tail(log) = <<>> THEN <<>>
    ELSE <<Head(Tail(log))>> \o SkippingFilter(Tail(Tail(log)), t)

sweepRoomsSkipping(rs, t) ==
    [r \in DOMAIN rs |-> [rs[r] EXCEPT !.messages = SkippingFilter(@, t)]]

sweepRooms(rs, t) ==
    [r \in DOMAIN rs |-> [rs[r] EXCEPT !.messages =
        SelectSeq(@, LAMBDA msg : sweepKeeps(msg, t))]]

sweepFilesNever(fs, t) == fs

sweepFiles(fs, t) ==
    LET keep == {id \in DOMAIN fs : ~(t - fs[id].timestamp > MESSAGE_TTL)}
    IN  [id \in keep |-> fs[id]]

RECURSIVE CountMessages(_, _)
CountMessages(rs, todo) ==
    IF todo = {} THEN 0
    ELSE LET r == CHOOSE x \in todo : TRUE
         IN  Len(rs[r].messages) + CountMessages(rs, todo \ {r})

Sweep ==
    /\ rooms' = sweepRooms(rooms, now)
    /\ files' = sweepFiles(files, now)
    /\ sent' = <<>>
    /\ last' = [NoOp EXCEPT !.op = "sweep",
                  !.pre = [messagesDeleted |->
                              CountMessages(rooms, DOMAIN rooms)
                              - CountMessages(rooms', DOMAIN rooms),
                           filesDeleted |-> Cardinality(DOMAIN files)
                              - Cardinality(DOMAIN files')]]
    /\ UNCHANGED <<now, budget, conns, nextRoom, rateLimits, fileIdCounter,
                   random, emptied, clientVars>>

\* POST /upload; the answer is [status, files, counter, limits]
uploadHandlerHeaderOnly(fs, counter, limits, ip, req, t) ==
    LET rl == checkRateLimit(limits, IpKey(ip), RATE_LIMIT_UPLOAD, t)
        answer(status) == [status |-> status, files |-> fs,
                           counter |-> counter, limits |-> rl.limits]
    IN  IF ~rl.ok THEN answer(429)
        ELSE IF req.contentLength > MAX_FILE_SIZE THEN answer(413)
        ELSE IF ~req.valid THEN answer(400)
        ELSE [status |-> 200,
              files |-> MapSet(fs, <<t, counter + 1>>,
                               [timestamp |-> t, size |-> req.fileSize]),
              counter |-> counter + 1, limits |-> rl.limits]

uploadHandler(fs, counter, limits, ip, req, t) ==
    LET rl == checkRateLimit(limits, IpKey(ip), RATE_LIMIT_UPLOAD, t)
        answer(status) == [status |-> status, files |-> fs,
                           counter |-> counter, limits |-> rl.limits]
    IN  IF ~rl.ok THEN answer(429)
        ELSE IF req.contentLength > MAX_FILE_SIZE THEN answer(413)
        ELSE IF req.len > MAX_FILE_SIZE THEN answer(413)
        ELSE IF ~req.valid THEN answer(400)
        ELSE IF req.fileSize > MAX_FILE_SIZE THEN answer(413)
        ELSE [status |-> 200,
              files |-> MapSet(fs, <<t, counter + 1>>,
                               [timestamp |-> t, size |-> req.fileSize]),
              counter |-> counter + 1, limits |-> rl.limits]

Upload(ip, req) ==
    LET res == uploadHandler(files, fileIdCounter, rateLimits, ip, req, now)
    IN  /\ res.status = 200 => budget.uploads > 0
        /\ budget' = IF res.status = 200
                     THEN [budget EXCEPT !.uploads = @ - 1] ELSE budget
        /\ files' = res.files
        /\ fileIdCounter' = res.counter
        /\ rateLimits' = res.limits
        /\ sent' = <<[type |-> "http", status |-> res.status, ip |-> ip,
                      to |-> {}]>>
        /\ last' = [NoOp EXCEPT !.op = "upload"]
        /\ UNCHANGED <<now, conns, rooms, nextRoom, random, emptied,
                       clientVars>>

\* GET /files/:id; the answer is [status, file, files]
downloadHandlerNoExpiry(fs, fileId, t) ==
    IF fileId \notin DOMAIN fs
    THEN [status |-> 404, file |-> Undefined, files |-> fs]
    ELSE [status |-> 200, file |-> fs[fileId], files |-> fs]

downloadHandler(fs, fileId, t) ==
    IF fileId \notin DOMAIN fs
    THEN [status |-> 404, file |-> Undefined, files |-> fs]
    ELSE IF t - fs[fileId].timestamp > MESSAGE_TTL
    THEN [status |-> 404, file |-> Undefined, files |-> MapDelete(fs, fileId)]
    ELSE [status |-> 200, file |-> fs[fileId], files |-> fs]

Download(fileId) ==
    LET res == downloadHandler(files, fileId, now)
    IN  /\ files' = res.files
        /\ sent' = <<[type |-> "http", status |-> res.status,
                      file |-> res.file, to |-> {}]>>
        /\ last' = [NoOp EXCEPT !.op = "download",
                      !.pre = [fileId |-> fileId,
                               found |-> fileId \in DOMAIN files]]
        /\ UNCHANGED <<now, budget, conns, rooms, nextRoom, rateLimits,
                       fileIdCounter, random, emptied, clientVars>>

\* the ids a GET /files/:id may name: the ids generateFileId can have
\* returned so far, stored or not, and one it never returns
FileIdInputs ==
    {<<a + MESSAGE_TTL * b, k>> : a \in 0 .. FileTicks, b \in 0 .. FileTicks,
                                 k \in 0 .. fileIdCounter}

\* ----------------------------------------------------------- the client
\* what wss.on('connection') sends a new socket: identity, then the init of
\* global with getActiveMessages (every message carries remainingTime)
onConnection(snapshot) ==
    <<[type |-> "identity"],
      [type |-> "init", roomId |-> global, messages |-> snapshot]>>

\* what the create_room branch sends: the init of the new room, room_created
onCreateRoom(roomId, snapshot) ==
    <<[type |-> "init", roomId |-> roomId, messages |-> snapshot],
      [type |-> "room_created", roomId |-> roomId]>>

\* the notice '... joined the room' as an init carries it
JoinNotice(k, t) ==
    <<[id |-> <<"sys", k>>, timestamp |-> t, remainingTime |-> MESSAGE_TTL]>>

\* a message as broadcastToRoom sends it: no remainingTime
LiveMessage(k, t) == [id |-> <<"msg", k>>, timestamp |-> t]

\* the snapshots an init may carry at time t: none but the join notice, or
\* also a message one second before its TTL, or one exactly at its TTL
SnapshotInputs(t) ==
    {JoinNotice(0, t),
     <<[id |-> <<"msg", 0>>, timestamp |-> t - (MESSAGE_TTL - 1000),
        remainingTime |-> 1000]>> \o JoinNotice(0, t),
     <<[id |-> <<"msg", 0>>, timestamp |-> t - MESSAGE_TTL,
        remainingTime |-> 0]>> \o JoinNotice(0, t)}

\* WebSocket.close()
closeSocket(socks, i) ==
    IF i = 0 \/ socks[i].readyState \notin {"connecting", "open"} THEN socks
    ELSE [socks EXCEPT ![i].readyState = "closing"]

\* connect (useCallback): close wsRef.current, make a new WebSocket
connect ==
    /\ clientBudget.sockets > 0
    /\ sockets' = Append(closeSocket(sockets, wsRef),
                         [readyState |-> "connecting", inbox |-> <<>>])
    /\ wsRef' = Len(sockets) + 1
    /\ clientBudget' = [clientBudget EXCEPT !.sockets = @ - 1]

\* useEffect(() => { connect(); ... }, [connect]): the first run
Mount ==
    /\ connectDep = Unmounted
    /\ connect
    /\ connectDep' = currentRoom
    /\ UNCHANGED <<reconnectTimeoutRef, currentRoom, messages, delivered, clock>>
    /\ UNCHANGED serverVars

\* the same effect after a render in which currentRoom, the dependency of
\* connect, has changed: its cleanup, then connect()
EffectRerun ==
    /\ connectDep # Unmounted
    /\ connectDep # currentRoom
    /\ reconnectTimeoutRef' = FALSE
    /\ connect
    /\ connectDep' = currentRoom
    /\ UNCHANGED <<currentRoom, messages, delivered, clock>>
    /\ UNCHANGED serverVars

\* the handshake completes: ws.onopen; the server has sent identity and init
Open(i, snapshot) ==
    /\ sockets[i].readyState = "connecting"
    /\ sockets' = [sockets EXCEPT ![i].readyState = "open",
                                  ![i].inbox = onConnection(snapshot)]
    /\ UNCHANGED <<wsRef, connectDep, reconnectTimeoutRef, currentRoom,
                   messages, delivered, clock, clientBudget>>
    /\ UNCHANGED serverVars

\* ws.onmessage
Receive(i) ==
    /\ sockets[i].readyState = "open"
    /\ sockets[i].inbox # <<>>
    /\ LET data == Head(sockets[i].inbox)
       IN  /\ sockets' = [sockets EXCEPT ![i].inbox = Tail(@)]
           /\ currentRoom' = IF data.type \in {"init", "room_created"}
                             THEN data.roomId ELSE currentRoom
           /\ messages' =
                IF data.type = "init" THEN data.messages
                ELSE IF data.type = "room_created" THEN <<>>
                ELSE IF data.type = "new_message"
                        /\ \A j \in DOMAIN messages :
                              messages[j].id # data.message.id
                THEN Append(messages, data.message)
                ELSE messages
           /\ delivered' =
                IF data.type = "init" THEN data.messages
                ELSE IF data.type = "room_created" THEN <<>>
                ELSE IF data.type = "new_message"
                        /\ \A j \in DOMAIN delivered :
                              delivered[j].id # data.message.id
                THEN Append(delivered, data.message)
                ELSE delivered
    /\ UNCHANGED <<wsRef, connectDep, reconnectTimeoutRef, clock, clientBudget>>
    /\ UNCHANGED serverVars

\* createRoom: the user creates a room; the server answers on the socket
UserCreateRoom ==
    /\ wsRef # 0
    /\ sockets[wsRef].readyState = "open"
    /\ clientBudget.rooms > 0
    /\ clientBudget' = [clientBudget EXCEPT !.rooms = @ - 1]
    /\ LET roomId == SessionRooms - clientBudget.rooms + 1
       IN  sockets' = [sockets EXCEPT ![wsRef].inbox =
                          @ \o onCreateRoom(roomId, JoinNotice(roomId, clock))]
    /\ UNCHANGED <<wsRef, connectDep, reconnectTimeoutRef, currentRoom,
                   messages, delivered, clock>>
    /\ UNCHANGED serverVars

\* the server broadcasts a message of another member to the socket
NewMessage(i) ==
    /\ sockets[i].readyState = "open"
    /\ clientBudget.msgs > 0
    /\ clientBudget' = [clientBudget EXCEPT !.msgs = @ - 1]
    /\ sockets' = [sockets EXCEPT ![i].inbox = Append(@,
                      [type |-> "new_message",
                       message |-> LiveMessage(clientBudget.msgs, clock)])]
    /\ UNCHANGED <<wsRef, connectDep, reconnectTimeoutRef, currentRoom,
                   messages, delivered, clock>>
    /\ UNCHANGED serverVars

\* ws.onclose of a socket that close() has put in CLOSING
OnClose(i) ==
    /\ sockets[i].readyState = "closing"
    /\ sockets' = [sockets EXCEPT ![i].readyState = "closed", ![i].inbox = <<>>]
    /\ reconnectTimeoutRef' = TRUE
    /\ UNCHANGED <<wsRef, connectDep, currentRoom, messages, delivered, clock,
                   clientBudget>>
    /\ UNCHANGED serverVars

\* the server or the network closes the socket: ws.onclose
Fault(i) ==
    /\ sockets[i].readyState \in {"connecting", "open"}
    /\ clientBudget.faults > 0
    /\ clientBudget' = [clientBudget EXCEPT !.faults = @ - 1]
    /\ sockets' = [sockets EXCEPT ![i].readyState = "closed", ![i].inbox = <<>>]
    /\ reconnectTimeoutRef' = TRUE
    /\ UNCHANGED <<wsRef, connectDep, currentRoom, messages, delivered, clock>>
    /\ UNCHANGED serverVars

\* the reconnect timeout of onclose fires: connect()
ReconnectTimeout ==
    /\ reconnectTimeoutRef
    /\ reconnectTimeoutRef' = FALSE
    /\ connect
    /\ UNCHANGED <<connectDep, currentRoom, messages, delivered, clock>>
    /\ UNCHANGED serverVars

\* setInterval callback "update remaining times", run n times in a row:
\* each run takes 1000 from every remainingTime that is a number and drops
\* the messages then at 0 or below; a message dropped by an earlier run
\* would be at 0 or below after the last, so the n runs come to this
ticks(msgs, n) ==
    SelectSeq([j \in DOMAIN msgs |->
                  IF "remainingTime" \notin DOMAIN msgs[j] THEN msgs[j]
                  ELSE [msgs[j] EXCEPT !.remainingTime = @ - 1000 * n]],
              LAMBDA msg : "remainingTime" \notin DOMAIN msg
                           \/ msg.remainingTime > 0)

\* n seconds pass: the interval fires n times; what the server has sent
\* has been handled before a second is over
IntervalTick(n) ==
    /\ connectDep # Unmounted
    /\ \A i \in DOMAIN sockets : sockets[i].inbox = <<>>
    /\ clientBudget.ticks > 0
    /\ clientBudget' = [clientBudget EXCEPT !.ticks = @ - 1]
    /\ clock' = clock + 1000 * n
    /\ messages' = ticks(messages, n)
    /\ UNCHANGED <<sockets, wsRef, connectDep, reconnectTimeoutRef,
                   currentRoom, delivered>>
    /\ UNCHANGED serverVars

Sockets == DOMAIN sockets

\* the seconds an IntervalTick covers: one, or the whole TTL
Seconds == {1, MESSAGE_TTL \div 1000}

Conns == DOMAIN conns

\* the ids a join_room may name: global and every private id of the run
RoomIds == 0 .. nextRoom + budget.rooms

\* the store, the clock and the sweeper; frames carry no display name
Next ==
    \/ \E d \in Deltas : Tick(d)
    \/ Sweep
    \/ \E anon \in AnonNames : Connect(anon)
    \/ \E c \in Conns, t \in TextInputs, f \in FileUrlInputs : Message(c, t, f)
    \/ \E c \in Conns, k \in RoomKeys : CreateRoom(c, k, Undefined)
    \/ \E c \in Conns, r \in RoomIds, k \in RoomKeys :
          JoinRoom(c, r, k, Undefined)
    \/ \E c \in Conns : LeaveRoom(c)
    \/ \E c \in Conns : Closing(c)
    \/ \E c \in Conns : Close(c)

\* rooms and membership at one instant of the clock
NextRooms ==
    \/ \E anon \in AnonNames : Connect(anon)
    \/ \E c \in Conns : Ping(c)
    \/ \E c \in Conns : Malformed(c)
    \/ \E c \in Conns : UnknownType(c)
    \/ \E c \in Conns : Message(c, <<"h", "i">>, Undefined)
    \/ \E c \in Conns, k \in RoomKeys, u \in UsernameInputs : CreateRoom(c, k, u)
    \/ \E c \in Conns, r \in RoomIds, k \in PresentedKeys,
          u \in UsernameInputs : JoinRoom(c, r, k, u)
    \/ \E c \in Conns : LeaveRoom(c)
    \/ \E c \in Conns : Closing(c)
    \/ \E c \in Conns : Close(c)

\* the rate limiter: one connection in global, uploads from one address
NextRate ==
    \/ Tick(RateClock[((RateTicks - budget.ticks) % Len(RateClock)) + 1])
    \/ \E anon \in AnonNames : Connect(anon)
    \/ \E c \in Conns : Ping(c)
    \/ \E c \in Conns, t \in TextInputs, f \in FileUrlInputs : Message(c, t, f)
    \/ \E ip \in Ips, req \in UploadInputs : Upload(ip, req)

\* broadcasts: several connections, anonymous names, the right key
NextCast ==
    \/ \E anon \in AnonNames : Connect(anon)
    \/ \E c \in Conns : Ping(c)
    \/ \E c \in Conns : Malformed(c)
    \/ \E c \in Conns : Message(c, <<"h", "i">>, Undefined)
    \/ \E c \in Conns, k \in RoomKeys : CreateRoom(c, k, Undefined)
    \/ \E c \in Conns, r \in RoomIds, k \in RoomKeys :
          JoinRoom(c, r, k, Undefined)
    \/ \E c \in Conns : LeaveRoom(c)
    \/ \E c \in Conns : Closing(c)
    \/ \E c \in Conns : Close(c)

\* pseudonyms: connections in global, each with a generated name
NextNames ==
    \/ \E anon \in Pseudonyms : Connect(anon)
    \/ \E c \in Conns : Message(c, <<"h", "i">>, Undefined)
    \/ \E c \in Conns, k \in PresentedKeys, u \in UsernameInputs :
          JoinRoom(c, global, k, u)
    \/ \E c \in Conns : LeaveRoom(c)
    \/ \E c \in Conns : Closing(c)
    \/ \E c \in Conns : Close(c)

\* name validation: one connection, every kind of name
NextValid ==
    \/ \E anon \in AnonNames : Connect(anon)
    \/ \E c \in Conns, k \in RoomKeys, u \in NameInputs : CreateRoom(c, k, u)
    \/ \E c \in Conns, r \in RoomIds, k \in RoomKeys, u \in NameInputs :
          JoinRoom(c, r, k, u)
    \/ \E c \in Conns : LeaveRoom(c)

\* the sweeper: one connection in global, uploads, the clock
NextSweep ==
    \/ \E d \in Deltas : Tick(d)
    \/ Sweep
    \/ \E anon \in AnonNames : Connect(anon)
    \/ \E c \in Conns : Message(c, <<"h", "i">>, Undefined)
    \/ \E ip \in Ips, req \in UploadInputs : Upload(ip, req)

\* the files: uploads, downloads, the sweeper and the clock
NextFiles ==
    \/ \E d \in Deltas : Tick(d)
    \/ Sweep
    \/ \E ip \in Ips, req \in UploadInputs : Upload(ip, req)
    \/ \E id \in FileIdInputs : Download(id)

\* message ids: connections in global, Math.random() with several outcomes
NextIds ==
    \/ \E d \in Deltas : Tick(d)
    \/ \E anon \in AnonNames : Connect(anon)
    \/ \E c \in Conns : Message(c, <<"h", "i">>, Undefined)
    \/ \E c \in Conns : LeaveRoom(c)

\* the client's sockets: the user creates rooms, sockets open and close
NextSession ==
    \/ Mount
    \/ EffectRerun
    \/ \E i \in Sockets : Open(i, JoinNotice(0, clock))
    \/ \E i \in Sockets : Receive(i)
    \/ UserCreateRoom
    \/ \E i \in Sockets : OnClose(i)
    \/ \E i \in Sockets : Fault(i)
    \/ ReconnectTimeout

\* the client's list: one socket, snapshots, live messages and the interval
NextView ==
    \/ Mount
    \/ \E i \in Sockets, snapshot \in SnapshotInputs(clock) : Open(i, snapshot)
    \/ \E i \in Sockets : Receive(i)
    \/ \E i \in Sockets : NewMessage(i)
    \/ \E n \in Seconds : IntervalTick(n)

Init ==
    InitWith([conns |-> StoreConns, rooms |-> StoreRooms,
              ticks |-> StoreTicks, msgs |-> StoreMsgs, uploads |-> 0])

InitRooms ==
    InitWith([conns |-> RoomConns, rooms |-> RoomRooms,
              ticks |-> 0, msgs |-> RoomMsgs, uploads |-> 0])

InitCast ==
    InitWith([conns |-> CastConns, rooms |-> CastRooms,
              ticks |-> 0, msgs |-> CastMsgs, uploads |-> 0])

InitNames ==
    InitWith([conns |-> NameConns, rooms |-> 0,
              ticks |-> 0, msgs |-> NameMsgs, uploads |-> 0])

InitValid ==
    InitWith([conns |-> 1, rooms |-> ValidRooms,
              ticks |-> 0, msgs |-> ValidMsgs, uploads |-> 0])

InitSweep ==
    InitWith([conns |-> 1, rooms |-> 0, ticks |-> SweepTicks,
              msgs |-> SweepMsgs, uploads |-> SweepUploads])

InitFiles ==
    InitWith([conns |-> 0, rooms |-> 0, ticks |-> FileTicks,
              msgs |-> 0, uploads |-> FileUploads])

InitIds ==
    InitDraws([conns |-> IdConns, rooms |-> 0, ticks |-> IdTicks,
               msgs |-> IdMsgs, uploads |-> 0], IdRandoms)

InitSession ==
    /\ InitServer(NoServer, 1)
    /\ InitClient([sockets |-> SessionSockets, faults |-> SessionFaults,
                   rooms |-> SessionRooms, msgs |-> 0, ticks |-> 0])

InitView ==
    /\ InitServer(NoServer, 1)
    /\ InitClient([sockets |-> 1, faults |-> 0, rooms |-> 0,
                   msgs |-> ViewMsgs, ticks |-> ViewTicks])

InitRate ==
    InitWith([conns |-> 1, rooms |-> 0,
              ticks |-> RateTicks, msgs |-> RateMsgs, uploads |-> RateUploads])

Spec == Init /\ [][Next]_vars

SpecRooms == InitRooms /\ [][NextRooms]_vars

SpecCast == InitCast /\ [][NextCast]_vars

SpecNames == InitNames /\ [][NextNames]_vars

SpecValid == InitValid /\ [][NextValid]_vars

SpecSweep == InitSweep /\ [][NextSweep]_vars

\* the sweeper's timer keeps firing and the clock keeps going while it can
SpecSweepFair ==
    SpecSweep /\ WF_vars(Sweep) /\ WF_vars(\E d \in Deltas : Tick(d))

SpecRate == InitRate /\ [][NextRate]_vars

SpecFiles == InitFiles /\ [][NextFiles]_vars

SpecIds == InitIds /\ [][NextIds]_vars

SpecSession == InitSession /\ [][NextSession]_vars

SpecView == InitView /\ [][NextView]_vars

\* ------------------------------------------------------------- properties
IsError(e, text) == e.type = "error" /\ e.message = text

\* the handler answered c with one error envelope and nothing else
ErrorOnlyTo(envs, c) ==
    Len(envs) = 1 /\ envs[1].type = "error" /\ envs[1].to = {c}

\* C1: the backlog of every init snapshot is exactly the stored messages of
\* the room with now - timestamp <= MESSAGE_TTL (boundary included), in the
\* order of the log, each with remainingTime = MESSAGE_TTL - (now - timestamp)
C1_InitBacklogIsVisible ==
    \A i \in DOMAIN sent : sent[i].type = "init" =>
        LET log == rooms[sent[i].roomId].messages
            vis == {j \in DOMAIN log : now - log[j].timestamp <= MESSAGE_TTL}
            nth(k) == CHOOSE j \in vis : Cardinality({x \in vis : x < j}) = k - 1
        IN  /\ Len(sent[i].messages) = Cardinality(vis)
            /\ \A k \in DOMAIN sent[i].messages :
                  sent[i].messages[k] = log[nth(k)] @@
                      [remainingTime |->
                          MESSAGE_TTL - (now - log[nth(k)].timestamp)]

\* an init snapshot carrying a message at the very end of its life next to
\* a fresh one
C1_Witness ==
    \E i \in DOMAIN sent :
        /\ sent[i].type = "init"
        /\ \E k \in DOMAIN sent[i].messages :
              sent[i].messages[k].remainingTime = 0
        /\ \E k \in DOMAIN sent[i].messages :
              sent[i].messages[k].remainingTime = MESSAGE_TTL

Expired(msg, t) == t - msg.timestamp > MESSAGE_TTL

NoExpiredInSnapshot ==
    \A i \in DOMAIN sent : sent[i].type = "init" =>
        \A k \in DOMAIN sent[i].messages : ~Expired(sent[i].messages[k], now)

SweptClean ==
    last.op = "sweep" =>
        \A r \in DOMAIN rooms : \A j \in DOMAIN rooms[r].messages :
            ~Expired(rooms[r].messages[j], now)

\* the clock does not go back, and an expired message stored after a step
\* was stored in that room before the step
NoExpiredAppears ==
    /\ now' >= now
    /\ \A r \in DOMAIN rooms' : \A j \in DOMAIN rooms'[r].messages :
          Expired(rooms'[r].messages[j], now') =>
              /\ r \in DOMAIN rooms
              /\ \E i \in DOMAIN rooms[r].messages :
                    rooms[r].messages[i] = rooms'[r].messages[j]

\* C2: a message past its TTL is in no init snapshot, swept or not; a sweep
\* leaves no message past its TTL in storage, and none comes back
C2_ExpiredGoneForGood ==
    /\ []NoExpiredInSnapshot
    /\ []SweptClean
    /\ [][NoExpiredAppears]_vars

\* a sweep that removed messages
C2_Witness ==
    last.op = "sweep" /\ last.pre.messagesDeleted > 0

\* allow returned true: no 'Slow down.' and the time was recorded
Allowed(c) ==
    /\ \A i \in DOMAIN sent' : ~IsError(sent'[i], "Slow down.")
    /\ SockKey(c) \in DOMAIN rateLimits'
    /\ rateLimits'[SockKey(c)] = now

\* C3: the first allow for a key returns true; after an allow accepted at
\* t1, the next one at t2 returns false if t2 - t1 < window and true if
\* t2 - t1 >= window, for every t1, 0 included
C3_RateLimiter ==
    [][\A c \in Conns, t \in TextInputs, f \in FileUrlInputs :
        Message(c, t, f) =>
            IF SockKey(c) \notin DOMAIN rateLimits THEN Allowed(c)
            ELSE Allowed(c) <=>
                    (now - rateLimits[SockKey(c)] >= RATE_LIMIT_WINDOW)]_vars

\* the user messages of all rooms, as <<room, index>>
UserMessages ==
    {x \in UNION {{r} \X DOMAIN rooms[r].messages : r \in DOMAIN rooms} :
        rooms[x[1]].messages[x[2]].senderId # systemId}

\* C4: two stored user messages of one identity, in whatever rooms, are at
\* least RATE_LIMIT_WINDOW apart
C4_OnePerWindow ==
    \A x, y \in UserMessages :
        LET mx == rooms[x[1]].messages[x[2]]
            my == rooms[y[1]].messages[y[2]]
        IN  (x # y /\ mx.senderId = my.senderId /\ mx.timestamp <= my.timestamp)
                => my.timestamp - mx.timestamp >= RATE_LIMIT_WINDOW

HoldsName(c, r, name) ==
    r \in DOMAIN conns[c].roomNames /\ conns[c].roomNames[r] = name

\* C5: join_room on a private room is rejected for any other secret than
\* the room's, accepted for the room's secret with a valid, unused name, and
\* nobody becomes a member of a private room but its creator and those who
\* presented its secret
C5_SecretGate ==
    [][/\ \A c \in Conns, r \in RoomIds, k \in PresentedKeys,
             u \in UsernameInputs :
            (JoinRoom(c, r, k, u) /\ r \in DOMAIN rooms /\ rooms[r].isPrivate)
            => /\ k # rooms[r].key =>
                    /\ sent' = <<ErrorEnv("Invalid room or key") @@ [to |-> {c}]>>
                    /\ rooms' = rooms
               /\ ( /\ k = rooms[r].key
                    /\ Len(UsernameOr(u, Guest)) <= MaxNameLen
                    /\ \A m \in rooms[r].members :
                          ~HoldsName(m, r, UsernameOr(u, Guest)) )
                  => /\ c \in rooms'[r].members
                     /\ conns'[c].currentRoom = r
       /\ \A r \in DOMAIN rooms' : \A c \in rooms'[r].members :
            ( /\ rooms'[r].isPrivate
              /\ (r \notin DOMAIN rooms \/ c \notin rooms[r].members) )
            => \/ /\ r \notin DOMAIN rooms
                  /\ \E k \in RoomKeys, u \in UsernameInputs : CreateRoom(c, k, u)
               \/ /\ r \in DOMAIN rooms
                  /\ \E u \in UsernameInputs : JoinRoom(c, r, rooms[r].key, u)
      ]_vars

\* a second identity got into a private room with the room's secret
C5_Witness ==
    /\ last.op = "join_room"
    /\ \E r \in DOMAIN rooms :
          /\ rooms[r].isPrivate
          /\ last.c \in rooms[r].members
          /\ Cardinality(rooms[r].members) = 2
          /\ \E i \in DOMAIN sent : sent[i].type = "init" /\ sent[i].roomId = r

\* C6: a rejected join_room (no such room, wrong secret, name longer than
\* 20, name held by another member) answers the requester with an error and
\* nothing else, and rooms, connections and rate limits stay as they were
C6_RejectedJoinChangesNothing ==
    [][\A c \in Conns, r \in RoomIds, k \in PresentedKeys,
          u \in UsernameInputs :
        JoinRoom(c, r, k, u) =>
            LET name == UsernameOr(u, Guest)
                rejected ==
                    \/ r \notin DOMAIN rooms
                    \/ (rooms[r].isPrivate /\ rooms[r].key # k)
                    \/ Len(name) > MaxNameLen
                    \/ \E m \in rooms[r].members \ {c} : HoldsName(m, r, name)
            IN  /\ rejected => ErrorOnlyTo(sent', c)
                /\ ErrorOnlyTo(sent', c) =>
                      /\ rooms' = rooms
                      /\ conns' = conns
                      /\ rateLimits' = rateLimits
                      /\ conns'[c].readyState = "open"
                      /\ c \in rooms'[conns'[c].currentRoom].members]_vars

\* a join_room rejected for a name another member holds
C6_Witness ==
    /\ last.op = "join_room"
    /\ ErrorOnlyTo(sent, last.c)
    /\ IsError(sent[1], "Username is already taken in this room")
    /\ conns[last.c].currentRoom = global
    /\ \E r \in DOMAIN rooms : \E m \in rooms[r].members :
          rooms[r].isPrivate /\ m # last.c /\ r \in DOMAIN conns[m].roomNames

\* C7: every room but global has a member
C7_NoEmptyRoom ==
    \A r \in DOMAIN rooms : r # global => rooms[r].members # {}

\* C8: once a private room's member count has dropped to 0, every join_room
\* naming it is rejected with 'Invalid room or key'
C8_EmptiedRoomUnreachable ==
    [][\A c \in Conns, r \in RoomIds, k \in PresentedKeys,
          u \in UsernameInputs :
        (JoinRoom(c, r, k, u) /\ r \in emptied) =>
            sent' = <<ErrorEnv("Invalid room or key") @@ [to |-> {c}]>>]_vars

\* C9: a connection whose close event has been handled is a member of no
\* room and has no rate-limit entry
C9_ClosedIsGone ==
    \A c \in Conns : conns[c].readyState = "closed" =>
        /\ \A r \in DOMAIN rooms : c \notin rooms[r].members
        /\ SockKey(c) \notin DOMAIN rateLimits

\* the close of a connection that had sent a message and had already been
\* removed from its room as a ghost
C9_Witness ==
    /\ last.op = "close"
    /\ last.pre.limited
    /\ last.pre.exists
    /\ last.c \notin last.pre.members

\* C10: the close of the last member of a private room removes the room,
\* log included, in that same close
C10_LastCloseDestroysRoom ==
    [][\A c \in Conns :
        ( /\ Close(c)
          /\ conns[c].currentRoom \in DOMAIN rooms
          /\ rooms[conns[c].currentRoom].isPrivate
          /\ rooms[conns[c].currentRoom].members \ {c} = {} )
        => /\ conns[c].currentRoom \notin DOMAIN rooms'
           /\ Cardinality(DOMAIN rooms') = Cardinality(DOMAIN rooms) - 1]_vars

\* the last member of a private room with a log has closed
C10_Witness ==
    /\ last.op = "close"
    /\ last.pre.exists
    /\ last.pre.roomId # global
    /\ last.pre.members = {last.c}
    /\ last.pre.logLen > 0
    /\ last.pre.roomId \notin DOMAIN rooms

\* ------------------------------------------------------------- broadcasts
\* the envelopes of type ty about room r, among envs, that reached m
Received(envs, ty, r, m) ==
    {i \in DOMAIN envs : /\ envs[i].type = ty
                          /\ envs[i].roomId = r
                          /\ m \in envs[i].to}

OpenMembers(rs, cs, r) ==
    IF r \notin DOMAIN rs THEN {}
    ELSE {m \in rs[r].members : cs[m].readyState = "open"}

\* C11: whenever a handler changes the member set of a room, every open
\* member the room has afterwards receives exactly one room_users and
\* exactly one room_user_list envelope for that room from that handler.
C11_MembershipChangeBroadcast ==
    [][\A r \in DOMAIN rooms \cap DOMAIN rooms' :
          rooms'[r].members # rooms[r].members =>
            \A m \in OpenMembers(rooms', conns', r) :
                /\ Cardinality(Received(sent', "room_users", r, m)) = 1
                /\ Cardinality(Received(sent', "room_user_list", r, m)) = 1]_vars

\* the envelopes of type ty about room r among envs
About(envs, ty, r) ==
    {i \in DOMAIN envs : envs[i].type = ty /\ envs[i].roomId = r}

MembersOf(rs, r) == IF r \in DOMAIN rs THEN rs[r].members ELSE {}

\* the members room r had when envelope i of the last handler was sent: the
\* handler's connection is added to a room after every other change to it,
\* so the last broadcast of its type sees the final members and an earlier
\* one sees them without that connection
MembersAtSend(i) ==
    LET r == sent[i].roomId
    IN  IF \A j \in About(sent, sent[i].type, r) : j <= i
        THEN MembersOf(rooms, r)
        ELSE MembersOf(rooms, r) \ {last.c}

\* C12: every room_users envelope carries the number of members its room has
\* when it is sent, and is followed by the room_user_list of the same room
\* listing exactly those members, each under its display name in that room.
C12_CountAndListMatchMembers ==
    \A i \in DOMAIN sent :
        sent[i].type = "room_users" =>
            /\ sent[i].count = Cardinality(MembersAtSend(i))
            /\ i + 1 \in DOMAIN sent
            /\ sent[i + 1].type = "room_user_list"
            /\ sent[i + 1].roomId = sent[i].roomId
            /\ sent[i + 1].users =
                 {[id |-> m, name |-> DisplayName(World, m, sent[i].roomId)] :
                    m \in MembersAtSend(i)}

\* a private room announces two members, one of them no longer open
C12_Witness ==
    \E i \in DOMAIN sent :
        /\ sent[i].type = "room_users"
        /\ sent[i].roomId # global
        /\ sent[i].count = 2
        /\ \E m \in MembersOf(rooms, sent[i].roomId) :
              conns[m].readyState = "closing"

RoomScoped == {"new_message", "room_users", "room_user_list"}

\* C13: a new_message, room_users or room_user_list envelope about room r
\* goes to exactly the connections that are members of r and open when it is
\* sent: to no other connection, and to every open member whatever the state
\* of the others.
C13_BroadcastReachesOpenMembers ==
    \A i \in DOMAIN sent :
        sent[i].type \in RoomScoped =>
            sent[i].to = {m \in MembersAtSend(i) :
                            conns[m].readyState = "open"}

\* a broadcast reaches an open member of a room that has a member that is
\* not open, while an open connection is outside the room
C13_Witness ==
    \E i \in DOMAIN sent :
        /\ sent[i].type \in RoomScoped
        /\ sent[i].to # {}
        /\ \E m \in MembersAtSend(i) : conns[m].readyState # "open"
        /\ \E n \in Conns \ MembersAtSend(i) : conns[n].readyState = "open"

Unicast == {"identity", "init", "room_created", "error", "pong"}

\* C14: an identity, init, room_created, error or pong envelope goes to the
\* connection whose connect or frame produced it, and to no other.
C14_UnicastToOriginator ==
    \A i \in DOMAIN sent :
        sent[i].type \in Unicast => sent[i].to = {last.c}

\* a connection joins a private room that has another open member
C14_Witness ==
    /\ last.op = "join_room"
    /\ \E i \in DOMAIN sent :
          /\ sent[i].type = "init"
          /\ sent[i].roomId # global
          /\ \E m \in MembersOf(rooms, sent[i].roomId) \ {last.c} :
                conns[m].readyState = "open"

\* ------------------------------------------------------------------ order
\* the messages of the new_message envelopes about room r, as sent
Delivered(envs, r) ==
    LET sel == SelectSeq(envs, LAMBDA e : e.type = "new_message"
                                            /\ e.roomId = r)
    IN  [i \in DOMAIN sel |-> sel[i].message]

LogOf(rs, r) == IF r \in DOMAIN rs THEN rs[r].messages ELSE <<>>

\* a is b with some elements left out
RECURSIVE IsSubseq(_, _)
IsSubseq(a, b) ==
    IF a = <<>> THEN TRUE
    ELSE IF b = <<>> THEN FALSE
    ELSE IF Head(a) = Head(b) THEN IsSubseq(Tail(a), Tail(b))
    ELSE IsSubseq(a, Tail(b))

\* snap is log with some messages left out and a remainingTime on the others
RECURSIVE InLogOrder(_, _)
InLogOrder(snap, log) ==
    IF snap = <<>> THEN TRUE
    ELSE IF log = <<>> THEN FALSE
    ELSE IF Head(snap) =
              Head(log) @@ [remainingTime |-> Head(snap).remainingTime]
    THEN InLogOrder(Tail(snap), Tail(log))
    ELSE InLogOrder(snap, Tail(log))

\* the new log of every room is what is left of the old one, in its order,
\* followed by the messages the handler delivered, in the order it sent them
AppendedAsDelivered ==
    \A r \in DOMAIN rooms' :
        LET new == rooms'[r].messages
            n == Len(new) - Len(Delivered(sent', r))
        IN  /\ n >= 0
            /\ SubSeq(new, n + 1, Len(new)) = Delivered(sent', r)
            /\ IsSubseq(SubSeq(new, 1, n), LogOf(rooms, r))

SnapshotInLogOrder ==
    \A i \in DOMAIN sent :
        sent[i].type = "init" =>
            InLogOrder(sent[i].messages, LogOf(rooms, sent[i].roomId))

\* C15: messages are delivered as new_message in the order they are appended
\* to their room's log, storage keeps that order, and every init snapshot
\* lists the messages in the order of the log.
C15_AppendOrder == []SnapshotInLogOrder /\ [][AppendedAsDelivered]_vars

\* a connection receives the second message of its room as new_message and
\* then a snapshot that holds it after the first, a different one
C15_Witness ==
    \E i, j \in DOMAIN sent :
        /\ sent[i].type = "init"
        /\ Len(sent[i].messages) = 2
        /\ sent[i].messages[1].text # sent[i].messages[2].text
        /\ j < i
        /\ sent[j].type = "new_message"
        /\ sent[j].roomId = sent[i].roomId
        /\ last.c \in sent[j].to
        /\ sent[j].message = rooms[sent[i].roomId].messages[2]

\* ------------------------------------------------------------- rejections
StateUnchanged ==
    /\ rooms' = rooms
    /\ conns' = conns
    /\ rateLimits' = rateLimits
    /\ files' = files

\* C16: a frame that does not parse, or whose type is none of ping, message,
\* create_room, join_room and leave_room, is answered by one error envelope
\* to its sender, changes no state and leaves the connection open.
C16_MalformedRejected ==
    [][\A c \in Conns :
          (Malformed(c) \/ UnknownType(c)) =>
              ErrorOnlyTo(sent', c) /\ StateUnchanged]_vars

\* C17: a create_room whose name is longer than MaxNameLen after trimming is
\* answered by one error envelope to the requester and changes no state:
\* the registry holds the same rooms and the requester is where it was.
C17_RejectedCreateChangesNothing ==
    [][\A c \in Conns, k \in RoomKeys, u \in UsernameInputs :
          (CreateRoom(c, k, u) /\ Len(UsernameOr(u, Host)) > MaxNameLen) =>
              ErrorOnlyTo(sent', c) /\ StateUnchanged]_vars

\* C18: a message with no text after trimming and no file is answered by one
\* error envelope to its sender and changes no state, the sender's rate-limit
\* entry included, so that a valid message right after it is not refused on
\* its account.
C18_EmptyMessageChangesNothing ==
    [][\A c \in Conns, t \in TextInputs, f \in FileUrlInputs :
          (/\ Message(c, t, f)
           /\ t = Undefined \/ Trim(t) = <<>>
           /\ f = Undefined) =>
              ErrorOnlyTo(sent', c) /\ StateUnchanged]_vars

\* ------------------------------------------------------------ rate limits
Limited(envs) == \E i \in DOMAIN envs : IsError(envs[i], "Slow down.")

\* C19: a message refused by the rate limiter is answered by one error
\* envelope to its sender, appends and broadcasts nothing and leaves the
\* recorded time of the last accepted message as it was; a message sent
\* RATE_LIMIT_WINDOW or more after that time is not refused by the limiter.
C19_RejectedAttemptNotRecorded ==
    [][\A c \in Conns, t \in TextInputs, f \in FileUrlInputs :
          Message(c, t, f) =>
              /\ Limited(sent') => ErrorOnlyTo(sent', c) /\ StateUnchanged
              /\ (/\ SockKey(c) \in DOMAIN rateLimits
                  /\ now - rateLimits[SockKey(c)] >= RATE_LIMIT_WINDOW) =>
                    ~Limited(sent') /\ rateLimits'[SockKey(c)] = now]_vars

\* an attempt refused 2999 ms after the accepted one, whose time is still
\* the recorded one
C19_Witness ==
    /\ last.op = "message"
    /\ Limited(sent)
    /\ now - rateLimits[SockKey(last.c)] = RATE_LIMIT_WINDOW - 1

\* the rate-limit entries of one class of keys are the same in a and b
SameEntries(class, a, b) ==
    \A k \in DOMAIN a \cup DOMAIN b :
        k[1] = class => k \in DOMAIN a /\ k \in DOMAIN b /\ a[k] = b[k]

\* the entry under key k is younger than window at time t; an entry of 0
\* is the case of C3
Cooling(limits, k, window, t) ==
    k \in DOMAIN limits /\ limits[k] # 0 /\ t - limits[k] < window

TooMany(envs) == \E i \in DOMAIN envs : envs[i].type = "http"
                                        /\ envs[i].status = 429

\* C20: messages and uploads are limited apart. A message touches no entry
\* of an address and is refused by the limiter exactly when the entry of its
\* connection is younger than RATE_LIMIT_WINDOW; an upload touches no entry
\* of a connection and is refused with 429 exactly when the entry of its
\* address is younger than RATE_LIMIT_UPLOAD. What the limiter does with an
\* entry of 0 is the subject of C3, not of this property.
C20_LimitsPartitioned ==
    [][/\ \A c \in Conns, t \in TextInputs, f \in FileUrlInputs :
            Message(c, t, f) =>
                /\ SameEntries("ip", rateLimits, rateLimits')
                /\ Limited(sent') <=>
                      Cooling(rateLimits, <<"sock", c>>, RATE_LIMIT_WINDOW, now)
       /\ \A ip \in Ips, req \in UploadInputs :
            Upload(ip, req) =>
                /\ SameEntries("sock", rateLimits, rateLimits')
                /\ TooMany(sent') <=>
                      Cooling(rateLimits, <<"ip", ip>>, RATE_LIMIT_UPLOAD, now)
      ]_vars

\* a message is accepted 3000 ms after an upload from the one address and a
\* message of the connection were, while the address is still cooling down
C20_Witness ==
    /\ now = 3001
    /\ last.op = "message"
    /\ ~Limited(sent)
    /\ rateLimits[<<"sock", last.c>>] = now
    /\ <<"ip", 1>> \in DOMAIN rateLimits
    /\ rateLimits[<<"ip", 1>>] = 1

\* ----------------------------------------------------------- the registry
GlobalIsPublic ==
    /\ global \in DOMAIN rooms
    /\ ~rooms[global].isPrivate
    /\ rooms[global].key = NoKey

InitFor(envs, c, r) ==
    \E i \in DOMAIN envs : /\ envs[i].type = "init"
                            /\ envs[i].roomId = r
                            /\ envs[i].to = {c}

C22_SecretIffPrivate ==
    \A r \in DOMAIN rooms :
        /\ rooms[r].isPrivate <=> rooms[r].key # NoKey
        /\ rooms[r].isPrivate <=> r # global

\* a room made by create_room, with its creator in it, next to global
C22_Witness ==
    /\ last.op = "create_room"
    /\ \E r \in DOMAIN rooms \ {global} : last.c \in rooms[r].members

\* ------------------------------------------------------------------ names
\* C23: in every state no two distinct members of a room have the same
\* display name in it: the pseudonym in global, the room name elsewhere.
C23_NamesUniqueInRoom ==
    \A r \in DOMAIN rooms : \A m1, m2 \in rooms[r].members :
        m1 # m2 => DisplayName(World, m1, r) # DisplayName(World, m2, r)

\* the name after trimming, empty when absent
Trimmed(u) == IF u = Undefined THEN <<>> ELSE Trim(u)

\* the name a request is to get: its own after trimming, or the default
Effective(u, dflt) == IF Len(Trimmed(u)) = 0 THEN dflt ELSE Trimmed(u)

HoldsNameIn(cs, c, r, name) ==
    r \in DOMAIN cs[c].roomNames /\ cs[c].roomNames[r] = name

NameRefused(envs, c) ==
    /\ ErrorOnlyTo(envs, c)
    /\ IsError(envs[1], "Username must be between 1 and 20 characters")

\* C24: create_room and join_room use a name of 1 to MaxNameLen characters
\* after trimming as trimmed, replace an absent, empty or blank name by Host
\* and Guest and never refuse it for its length, and refuse a name longer
\* than MaxNameLen after trimming.
C24_NameValidation ==
    [][/\ \A c \in Conns, k \in RoomKeys, u \in NameInputs :
            CreateRoom(c, k, u) =>
                IF Len(Trimmed(u)) > MaxNameLen
                THEN NameRefused(sent', c)
                ELSE /\ HoldsNameIn(conns', c, nextRoom', Effective(u, Host))
                     /\ \E i \in DOMAIN sent' :
                           /\ sent'[i].type = "room_created"
                           /\ sent'[i].username = Effective(u, Host)
       /\ \A c \in Conns, r \in DOMAIN rooms, k \in RoomKeys, u \in NameInputs :
            (JoinRoom(c, r, k, u) /\ ~roomAccessDenied(World, r, k)) =>
                IF Len(Trimmed(u)) > MaxNameLen
                THEN NameRefused(sent', c)
                ELSE \/ /\ \E m \in rooms[r].members :
                              HoldsName(m, r, Effective(u, Guest))
                        /\ ErrorOnlyTo(sent', c)
                        /\ ~NameRefused(sent', c)
                     \/ /\ HoldsNameIn(conns', c, r, Effective(u, Guest))
                        /\ InitFor(sent', c, r)
      ]_vars

\* a room is created under a name of exactly MaxNameLen characters that
\* came with a leading blank
C24_Witness ==
    /\ last.op = "create_room"
    /\ \E i \in DOMAIN sent : /\ sent[i].type = "room_created"
                               /\ sent[i].username = FullName
    /\ \E r \in DOMAIN rooms : /\ last.c \in rooms[r].members
                                /\ HoldsName(last.c, r, FullName)

\* ------------------------------------------------------------ the sweeper
\* the stored messages, as <<room, position>>, that are past their TTL at t
ExpiredAt(rs, t) ==
    {x \in UNION {{r} \X DOMAIN rs[r].messages : r \in DOMAIN rs} :
        Expired(rs[x[1]].messages[x[2]], t)}

Live(log, t) == SelectSeq(log, LAMBDA msg : ~Expired(msg, t))

\* no step takes a message that is within its TTL out of a room that stays
NoLiveMessageLost ==
    \A r \in DOMAIN rooms \cap DOMAIN rooms' :
        IsSubseq(Live(rooms[r].messages, now'), rooms'[r].messages)

\* C25: whatever handlers ran before it, a sweep leaves in every room the
\* messages with now - timestamp <= MESSAGE_TTL, each once and in order,
\* removes all others and counts as many as it removed; and no step at all
\* removes a message within its TTL from a room that stays in the registry.
C25_SweepRemovesExactlyExpired ==
    [][/\ NoLiveMessageLost
       /\ Sweep =>
            /\ DOMAIN rooms' = DOMAIN rooms
            /\ \A r \in DOMAIN rooms :
                  rooms'[r].messages = Live(rooms[r].messages, now)
            /\ last'.pre.messagesDeleted = Cardinality(ExpiredAt(rooms, now))
      ]_vars

\* a sweep removes one message and keeps one that is exactly MESSAGE_TTL old
C25_Witness ==
    /\ last.op = "sweep"
    /\ last.pre.messagesDeleted = 1
    /\ \E r \in DOMAIN rooms : \E j \in DOMAIN rooms[r].messages :
          now - rooms[r].messages[j].timestamp = MESSAGE_TTL

\* what a second sweep at the same instant would leave is what the first left
SweepTwiceIsOnce ==
    /\ sweepRooms(sweepRooms(rooms, now), now) = sweepRooms(rooms, now)
    /\ sweepFiles(sweepFiles(files, now), now) = sweepFiles(files, now)

SecondSweepRemovesNothing ==
    (last.op = "sweep" /\ Sweep) =>
        /\ rooms' = rooms
        /\ files' = files
        /\ last'.pre.messagesDeleted = 0
        /\ last'.pre.filesDeleted = 0

\* C26: the sweep is idempotent: a sweep that follows a sweep at the same
\* instant, nothing appended in between, leaves the logs and the files as
\* they are and removes no message and no file.
C26_SweepIdempotent ==
    []SweepTwiceIsOnce /\ [][SecondSweepRemovesNothing]_vars

\* a sweep finds nothing to remove after a sweep took the only message of
\* global and the only file
C26_Witness ==
    /\ last.op = "sweep"
    /\ last.pre.messagesDeleted = 0
    /\ last.pre.filesDeleted = 0
    /\ rooms[global].members # {}
    /\ rooms[global].messages = <<>>
    /\ fileIdCounter > 0
    /\ DOMAIN files = {}

\* the readings the clock of SpecSweep can show
Times == {a + MESSAGE_TTL * b : a \in 0 .. SweepTicks + 1,
                                b \in 0 .. SweepTicks + 1}

MessageOf(ts) ==
    \E r \in DOMAIN rooms : \E j \in DOMAIN rooms[r].messages :
        rooms[r].messages[j].timestamp = ts

FileOf(ts) == \E id \in DOMAIN files : files[id].timestamp = ts

\* the clock has stopped for good before what was made at ts is past its TTL
ClockStopped(ts) == budget.ticks = 0 /\ now - ts <= MESSAGE_TTL

\* C27: with the sweeper's timer firing again and again, a message or file
\* made at time ts does not stay stored for ever: it is absent at some later
\* point, unless the clock stops before it is past its TTL.
C27_EverythingExpires ==
    \A ts \in Times :
        /\ MessageOf(ts) ~> (~MessageOf(ts) \/ ClockStopped(ts))
        /\ FileOf(ts) ~> (~FileOf(ts) \/ ClockStopped(ts))

\* one sweep removes a message and a file
C27_Witness ==
    /\ last.op = "sweep"
    /\ last.pre.messagesDeleted > 0
    /\ last.pre.filesDeleted > 0

\* -------------------------------------------------------------- moves
\* C28: the first envelope of a connect is the identity, sent to the new
\* connection with its id, before every room_users, room_user_list,
\* new_message and init of the connect; the connect sends the new connection
\* one init, for global.
C28_IdentityFirst ==
    last.op = "connection" =>
        /\ sent # <<>>
        /\ sent[1].type = "identity"
        /\ sent[1].to = {last.c}
        /\ sent[1].userId = last.c
        /\ \A i \in DOMAIN sent : i > 1 => sent[i].type # "identity"
        /\ InitFor(sent, last.c, global)
        /\ \A i \in DOMAIN sent :
              sent[i].type = "init" => sent[i].roomId = global

\* a connect that also reaches a member that global already had
C28_Witness ==
    /\ last.op = "connection"
    /\ \E i \in DOMAIN sent : /\ sent[i].type = "room_users"
                               /\ last.c \in sent[i].to
                               /\ sent[i].to # {last.c}

\* the system notices of the kind what (" left the room", " joined the
\* room") about room r among envs
Notices(envs, r, what) ==
    {i \in DOMAIN envs : /\ envs[i].type = "new_message"
                          /\ envs[i].roomId = r
                          /\ envs[i].message.senderId = systemId
                          /\ envs[i].message.text[Len(envs[i].message.text)]
                                = what}

\* the step is an accepted join_room, create_room or leave_room of c
Moves(c) ==
    /\ last'.op \in {"join_room", "create_room", "leave_room"}
    /\ last'.c = c
    /\ \E i \in DOMAIN sent' : sent'[i].type = "init"

\* C29: when join_room, create_room or leave_room moves a connection from
\* room X to room Y, X gets a 'left the room' notice, appended to its log and
\* broadcast to its open members, exactly when a member remains in X; Y gets
\* one 'joined the room' notice, appended and broadcast to its open members;
\* the init for Y follows both; and when X and Y differ X has lost the
\* connection and Y has gained it.
C29_MoveNotices ==
    [][\A c \in Conns : Moves(c) =>
          LET X == conns[c].currentRoom
              Y == conns'[c].currentRoom
              rest == rooms[X].members \ {c}
              left == Notices(sent', X, " left the room")
              joined == Notices(sent', Y, " joined the room")
          IN  /\ left # {} <=> rest # {}
              /\ Cardinality(left) <= 1
              /\ \A i \in left :
                    /\ sent'[i].to = {m \in rest : conns[m].readyState = "open"}
                    /\ \E j \in DOMAIN rooms'[X].messages :
                          /\ j > Len(rooms[X].messages)
                          /\ rooms'[X].messages[j] = sent'[i].message
              /\ Cardinality(joined) = 1
              /\ \A i \in joined :
                    /\ sent'[i].to = OpenMembers(rooms', conns', Y)
                    /\ c \in sent'[i].to
                    /\ rooms'[Y].messages[Len(rooms'[Y].messages)]
                          = sent'[i].message
                    /\ \A k \in left : k < i
                    /\ \E n \in DOMAIN sent' : /\ n > i
                                                /\ sent'[n].type = "init"
                                                /\ sent'[n].roomId = Y
                                                /\ sent'[n].to = {c}
              /\ X # Y =>
                    /\ c \in rooms[X].members
                    /\ rooms'[X].members = rest
                    /\ c \notin MembersOf(rooms, Y)
                    /\ rooms'[Y].members = MembersOf(rooms, Y) \cup {c}]_vars

\* a connection leaves a private room where a member stays behind
C29_Witness ==
    /\ last.op = "leave_room"
    /\ \E r \in DOMAIN rooms \ {global} :
          /\ Notices(sent, r, " left the room") # {}
          /\ rooms[r].members # {}
    /\ Notices(sent, global, " joined the room") # {}

\* C30: a ping is answered by one pong to its sender and nothing else,
\* inside the sender's message cooldown as outside it, and changes no state.
C30_PingPong ==
    [][\A c \in Conns :
          Ping(c) => /\ sent' = <<[type |-> "pong", to |-> {c}]>>
                     /\ StateUnchanged]_vars

\* a pong goes out while the sender's last message is 2999 ms old
C30_Witness ==
    /\ last.op = "ping"
    /\ sent = <<[type |-> "pong", to |-> {last.c}]>>
    /\ Cooling(rateLimits, <<"sock", last.c>>, RATE_LIMIT_WINDOW, now)
    /\ now - rateLimits[<<"sock", last.c>>] = RATE_LIMIT_WINDOW - 1

\* the rooms of the registry rs that count c among their members
MemberRooms(rs, c) == {r \in DOMAIN rs : c \in rs[r].members}

\* C31: after a leave_room command, from whatever room, the connection is a
\* member of global and of no other room, its current room is global, and
\* the handler has sent it an init snapshot for global whose username is its
\* generated pseudonym.
C31_LeaveReturnsToGlobal ==
    [][\A c \in Conns :
          LeaveRoom(c) =>
              /\ MemberRooms(rooms', c) = {global}
              /\ conns'[c].currentRoom = global
              /\ \E i \in DOMAIN sent' :
                    /\ sent'[i].type = "init"
                    /\ sent'[i].to = {c}
                    /\ sent'[i].roomId = global
                    /\ sent'[i].username = conns[c].anonName]_vars

\* a connection that held a chosen name in a private room has left it with
\* leave_room: it is in global only and its init carries the pseudonym
C31_Witness ==
    /\ last.op = "leave_room"
    /\ \E r \in DOMAIN conns[last.c].roomNames :
          /\ r # global
          /\ conns[last.c].roomNames[r] # conns[last.c].anonName
          /\ \E i \in DOMAIN sent :
                sent[i].type = "room_users" /\ sent[i].roomId = r
    /\ MemberRooms(rooms, last.c) = {global}
    /\ conns[last.c].currentRoom = global
    /\ \E i \in DOMAIN sent :
          /\ sent[i].type = "init"
          /\ sent[i].to = {last.c}
          /\ sent[i].roomId = global
          /\ sent[i].username = conns[last.c].anonName

\* ---------------------------------------------------------------- files
\* C32: GET /files/:id answers with the stored file exactly when the id is
\* in the store and now - timestamp <= MESSAGE_TTL; for a file older than
\* that it answers 404 whether or not the sweeper has run, and for an id
\* that is not in the store (never issued, or swept) it answers 404.
C32_FetchOnlyWithinTTL ==
    [][\A id \in FileIdInputs :
          Download(id) =>
              /\ Len(sent') = 1
              /\ IF id \in DOMAIN files
                    /\ now - files[id].timestamp <= MESSAGE_TTL
                 THEN sent'[1].status = 200 /\ sent'[1].file = files[id]
                 ELSE sent'[1].status = 404 /\ sent'[1].file = Undefined
      ]_vars

\* a file past its TTL that the sweeper has not removed is asked for and
\* is answered with 404
C32_Witness ==
    /\ last.op = "download"
    /\ last.pre.found
    /\ now - last.pre.fileId[1] > MESSAGE_TTL
    /\ sent[1].status = 404

NoOversizedFile == \A id \in DOMAIN files : files[id].size <= MAX_FILE_SIZE

\* the body or the decoded file of the request is over the ceiling
OverCap(req) == req.len > MAX_FILE_SIZE \/ req.fileSize > MAX_FILE_SIZE

\* C33: no stored file is larger than MAX_FILE_SIZE; an upload over the
\* ceiling is refused (413, or 429 when the address is rate-limited), and an
\* upload that is refused leaves the file store and the id counter as they
\* were.
C33_NoOversizedBlob ==
    /\ []NoOversizedFile
    /\ [][\A ip \in Ips, req \in UploadInputs :
            Upload(ip, req) =>
                /\ OverCap(req) => sent'[1].status \in {413, 429}
                /\ sent'[1].status # 200 =>
                      files' = files /\ fileIdCounter' = fileIdCounter]_vars

\* an upload is refused as too large while the store holds a file
C33_Witness ==
    /\ last.op = "upload"
    /\ sent[1].status = 413
    /\ DOMAIN files # {}
    /\ NoOversizedFile

\* ------------------------------------------------------------------ ids
\* the places of the stored messages: <<room, index in the room's log>>
Stored ==
    UNION {{<<r, j>> : j \in DOMAIN rooms[r].messages} : r \in DOMAIN rooms}

\* C34: no two stored messages, user messages or notices, of one room or of
\* two, have the same id.
C34_IdsUnique ==
    \A p, q \in Stored :
        p # q => rooms[p[1]].messages[p[2]].id # rooms[q[1]].messages[q[2]].id

\* ---------------------------------------------------------------- names
\* the name c shows in room r when the connections are cs
NameShown(cs, c, r) == DisplayName([conns |-> cs], c, r)

\* C35: no step changes the display name of a connection that is a member
\* of a room before the step and a member of the same room after it.
C35_NoRename ==
    [][\A c \in Conns : \A r \in DOMAIN rooms \cap DOMAIN rooms' :
          (c \in rooms[r].members /\ c \in rooms'[r].members)
              => NameShown(conns', c, r) = NameShown(conns, c, r)]_vars

\* ----------------------------------------------------------- membership
\* C36: between handlers every open connection is a member of exactly one
\* room, the room its currentRoom names, which is in the registry; no
\* connection, open or not, is a member of two rooms.
C36_OneRoomPerConnection ==
    \A c \in Conns :
        /\ conns[c].readyState = "open" =>
              /\ conns[c].currentRoom \in DOMAIN rooms
              /\ MemberRooms(rooms, c) = {conns[c].currentRoom}
        /\ Cardinality(MemberRooms(rooms, c)) <= 1

\* a connection has come back to global from a private room where another
\* open connection stays
C36_Witness ==
    /\ last.op = "leave_room"
    /\ conns[last.c].readyState = "open"
    /\ MemberRooms(rooms, last.c) = {global}
    /\ \E r \in DOMAIN conns[last.c].roomNames :
          /\ r # global
          /\ r \in DOMAIN rooms
          /\ \E d \in Conns : /\ conns[d].readyState = "open"
                                /\ MemberRooms(rooms, d) = {r}
                                /\ conns[d].currentRoom = r

\* ------------------------------------------------------------- messages
\* C37: a message command that is accepted appends one message to the log
\* of the sender's current room and to no other log, sends it as one
\* new_message to the open members of that room, and the message carries the
\* sender's id and the name the sender shows in that room: the pseudonym in
\* global, the name of its join in a private room.
C37_MessageToCurrentRoom ==
    [][\A c \in Conns, t \in TextInputs, f \in FileUrlInputs :
          (Message(c, t, f) /\ sent' # <<>> /\ sent'[1].type = "new_message")
              => LET cur == conns[c].currentRoom
                     m == sent'[1].message
                 IN  /\ Len(sent') = 1
                     /\ DOMAIN rooms' = DOMAIN rooms
                     /\ rooms'[cur].messages = Append(rooms[cur].messages, m)
                     /\ \A r \in DOMAIN rooms \ {cur} : rooms'[r] = rooms[r]
                     /\ sent'[1].to = OpenMembers(rooms, conns, cur)
                     /\ m.senderId = c
                     /\ m.sender = NameShown(conns, c, cur)
                     /\ m.sender = IF cur = global THEN conns[c].anonName
                                   ELSE conns[c].roomNames[cur]]_vars

\* a message sent in a private room under a chosen name while another open
\* connection is in global and does not receive it
C37_Witness ==
    /\ last.op = "message"
    /\ Len(sent) = 1
    /\ sent[1].type = "new_message"
    /\ LET cur == conns[last.c].currentRoom
       IN  /\ cur # global
           /\ sent[1].message.sender = conns[last.c].roomNames[cur]
           /\ sent[1].message.sender \notin {conns[last.c].anonName, Guest, Host}
           /\ sent[1].message = rooms[cur].messages[Len(rooms[cur].messages)]
           /\ last.c \in sent[1].to
    /\ \E d \in Conns : /\ conns[d].readyState = "open"
                          /\ conns[d].currentRoom = global
                          /\ d \notin sent[1].to

\* the handler answered c that the name is taken, and nothing else
DuplicateRefused(envs, c) ==
    /\ ErrorOnlyTo(envs, c)
    /\ IsError(envs[1], "Username is already taken in this room")

\* C38: a join_room is refused as a duplicate only when a member of the
\* target room other than the requester holds the requested name there; a
\* member that asks to join its room under the name it holds is not refused.
C38_OwnNameIsNoDuplicate ==
    [][\A c \in Conns, r \in RoomIds, k \in PresentedKeys,
         u \in UsernameInputs :
          (JoinRoom(c, r, k, u) /\ DuplicateRefused(sent', c))
              => \E m \in rooms[r].members \ {c} :
                    HoldsNameIn(conns, m, r, UsernameOr(u, Guest))]_vars

\* ------------------------------------------------------------ the client
\* closes by the server or the network so far
Faults == SessionFaults - clientBudget.faults

\* C39: with no close by the server or the network the client has one
\* WebSocket for its whole life and never closes it, whatever init or
\* room_created it receives; each such close accounts for one more socket.
C39_OneConnection ==
    /\ Len(sockets) <= 1 + Faults
    /\ \A i \in DOMAIN sockets : sockets[i].readyState # "closing"

Displayed(m) == \E j \in DOMAIN messages : messages[j].id = m.id

\* C40: a message handed to the displayed list, by an init snapshot or by a
\* new_message, is in the list while it is younger than MESSAGE_TTL and is
\* not in the list once it is older.
C40_ListFollowsTTL ==
    \A k \in DOMAIN delivered :
        LET m == delivered[k]
            age == clock - m.timestamp
        IN  /\ age < MESSAGE_TTL => Displayed(m)
            /\ age > MESSAGE_TTL => ~Displayed(m)

====
